---- MODULE Spec2Model ----
(***************************************************************************)
(* State-machine model of the TabNet training facade of src/train.py:      *)
(* construction (__init__/__load_model), fit (input checks, model          *)
(* construction, phase dispatch), the epoch/batch loop of __train with     *)
(* checkpoints, validation, best-snapshot tracking and early stopping,     *)
(* the feature masks of __generate_model_mask, and predict /               *)
(* predict_proba.  Spec ranges over training configurations on data        *)
(* without categorical columns; SpecData ranges over labelled tables with  *)
(* categorical columns, a second instance, and short training runs.        *)
(*                                                                         *)
(* Tensors are abstracted: the model's weights are identified by the       *)
(* number of optimizer steps applied to them since the current fit call    *)
(* began (0 = the weights fit started with); a validation criterion is a   *)
(* small natural number or NaN.                                            *)
(***************************************************************************)
EXTENDS Integers, Sequences, FiniteSets, TLC

(* ----------------------------- bounds ---------------------------------- *)
MaxEpochs == 3          \* largest epoch budget a fit call may configure
NBatches == 2           \* batches the training stream yields per epoch
MaxCrit == 3            \* validation criteria are NaN or 1..MaxCrit
MaxPatience == 2        \* largest early_stopping_patience configured
MaxSaveFreq == 2        \* largest epoch_save_frequency configured
MaxDecayRate == 3       \* largest learning_rate_decay_step_rate configured
MaxBatchSize == 2       \* largest batch_size configured (rows of a batch)

(* ------------------------- value encodings ----------------------------- *)
NaN == -1               \* float("NaN")
None == -2              \* Python None in a numeric slot

CritVals == (1..MaxCrit) \cup {NaN}

\* torch.isnan
IsNan(a) == a = NaN

\* torch.min(a, b): propagates NaN
TorchMin(a, b) == IF IsNan(a) \/ IsNan(b) THEN NaN ELSE IF a <= b THEN a ELSE b

\* a == b on tensors: NaN compares unequal to everything
TorchEq(a, b) == ~IsNan(a) /\ ~IsNan(b) /\ a = b

\* dict.update(overrides)
Update(d, ov) ==
    [k \in (DOMAIN d) \cup (DOMAIN ov) |-> IF k \in DOMAIN ov THEN ov[k] ELSE d[k]]

(* --------------------- class-level default dicts ----------------------- *)
\* p_mask is held in percent (0.2 is 20)
DefaultTrainParams ==
    [ batch_size                    |-> 8192,
      p_mask                        |-> 20,
      run_self_supervised_training  |-> FALSE,
      run_supervised_training       |-> TRUE,
      early_stopping                |-> TRUE,
      early_stopping_min_delta_pct  |-> 0,
      early_stopping_patience       |-> 20,
      max_epochs_supervised         |-> 500,
      max_epochs_self_supervised    |-> 500,
      epoch_save_frequency          |-> 100,
      learning_rate_decay_step_rate |-> 1000 ]

\* a dict is held as the sequence of its values in insertion order, {} as << >>;
\* the entries the model constructor adds (lines 516-524) are None until then
DefaultModelParams ==
    [ categorical_variables   |-> << >>,
      categorical_config      |-> << >>,
      discrete_target_mapping |-> << >>,
      embedding_dim           |-> 2,
      discrete_outputs        |-> FALSE,
      n_input_dims            |-> None,
      n_original_input_dims   |-> None,
      n_continuous_input_dims |-> None ]

VARIABLES
    pc,                     \* position of the single caller thread
    last_call,              \* facade method called last
    raised,                 \* exception the last call raised ("None" if none)
    save_file,              \* the save_file argument __init__ was given
    default_train_params,   \* TabNet.default_train_params (self.train_params aliases it)
    default_model_params,   \* TabNet.default_model_params
    loaded_model_params,    \* model_params read from a checkpoint ("None" field if not loaded)
    model,                  \* self.model: "None", "loaded" or "constructed"
    model_mode,             \* "train" or "eval": the mode the model was left in
    val_generator,          \* fit built a validation stream (X_val is not None)
    weights,                \* identity of the live model's weight values
    forward_passes,         \* forward passes run by the last predict call
    self_supervised,        \* __train argument
    epochs,                 \* __train argument
    c_epoch,                \* loop variable of __train
    batch_idx,              \* loop variable of __train
    step,                   \* global step counter of __train / fit
    lr_decays,              \* scheduler.step() calls on the current scheduler
    es_tracker,             \* EarlyStopping instance of the current __train
    model_max_state_dict,   \* best snapshot of the current __train
    model_max_criteria,     \* running best of the current __train
    early_stopped,          \* the epoch loop was left by break
    checkpoints,            \* checkpoints written by the current fit call, in order
    batches_done,           \* per phase stub: training batches processed in this fit call
    validations,            \* validations run in the current __train
    es_calls,               \* es_tracker.step calls in the current __train
    observed,               \* per validation of the current __train: the criterion and
                            \* the weights the model had at the end of that epoch
    captured_at,            \* validation at which model_max_state_dict was last assigned
    ones_mask,              \* local of __train: the mask of line 213
    self_supervised_mask,   \* local of __train: the mask of line 215
    mask_draw,              \* the outcome of the Bernoulli draw (line 122) behind it
    train_pass_mode,        \* mode the model was in at the last training forward pass
    val_pass_mode           \* mode the model was in at the last validation forward pass

vars == << pc, last_call, raised, save_file, default_train_params, default_model_params,
           loaded_model_params, model, model_mode, val_generator, weights, forward_passes,
           self_supervised, epochs, c_epoch, batch_idx, step, lr_decays, es_tracker, model_max_state_dict,
           model_max_criteria, early_stopped, checkpoints, batches_done, validations,
           es_calls, observed, captured_at, ones_mask, self_supervised_mask, mask_draw,
                 train_pass_mode, val_pass_mode >>

\* the locals of __train and what is recorded about the current fit call
train_vars == << val_generator, weights, self_supervised, epochs, c_epoch, batch_idx, step,
                 lr_decays, es_tracker, model_max_state_dict, model_max_criteria,
                 early_stopped, checkpoints, batches_done, validations, es_calls,
                 observed, captured_at, ones_mask, self_supervised_mask, mask_draw,
                 train_pass_mode, val_pass_mode >>

\* the locals of __train
loop_vars == << self_supervised, epochs, c_epoch, batch_idx, lr_decays, es_tracker,
                model_max_state_dict, model_max_criteria, early_stopped, validations,
                es_calls, observed, captured_at, ones_mask, self_supervised_mask, mask_draw,
                 train_pass_mode, val_pass_mode >>

\* the configuration of the class and of the instance
config_vars == << save_file, default_train_params, default_model_params,
                  loaded_model_params >>

\* self.train_params: fit binds it to the class dict itself (no copy)
train_params == default_train_params

\* self.model_params: the loaded dict, or else the class dict itself (no copy)
model_params ==
    IF loaded_model_params.n_original_input_dims # None
        THEN loaded_model_params ELSE default_model_params

(* ------------------------------ inputs --------------------------------- *)
EmptyDict == [k \in {} |-> 0]

SaveFiles == {"None", "missing", "corrupt", "valid"}

ModelParamOverrides == {EmptyDict} \cup {[discrete_outputs |-> b] : b \in BOOLEAN}

\* number of columns of an array X_train
NCols == 2

\* the keys range(X.shape[1]) of the columns of an array, as names
IndexNames == << "0", "1", "2", "3", "4", "5" >>

ArrayColumns(n) == [i \in 1..n |-> IndexNames[i]]

\* the column labels of a labelled table
ColumnNames == << "a", "b", "c", "d", "e", "f" >>

\* the columns of the labelled table the fit calls of Spec pass
TableColumns == [i \in 1..NCols |-> ColumnNames[i]]

\* generate_categorical_to_ordinal_map(values): d distinct values map to 0..d-1
OrdinalMap(d) == [i \in 1..d |-> i - 1]

\* 0-based position of column name col in the column sequence cols
ColumnIndex(cols, col) == (CHOOSE i \in 1..Len(cols) : cols[i] = col) - 1

\* lines 420-423: the target mapping, generated only while no model exists
WithTargetMapping(mp, m, d) ==
    IF m = "None" /\ mp.discrete_outputs
        THEN [mp EXCEPT !.discrete_target_mapping = OrdinalMap(d)]
        ELSE mp

\* lines 453-461: config_dict, one entry per categorical variable in the order
\* of model_params["categorical_variables"]
ConfigDict(catvars, cols, d) ==
    [i \in 1..Len(catvars) |->
        [ map        |-> OrdinalMap(d),
          n_dims     |-> d,
          idx        |-> ColumnIndex(cols, catvars[i]),
          identifier |-> catvars[i] ]]

\* line 447: categorical variables are configured
HasCategoricals(mp) == Len(mp.categorical_variables) > 0

\* lines 447-462: the categorical configuration, from the X_train of this call
WithCategoricalConfig(mp, cols, d) ==
    IF HasCategoricals(mp)
        THEN [mp EXCEPT !.categorical_config = ConfigDict(mp.categorical_variables, cols, d)]
        ELSE mp

\* line 511: width of the rows after embedding expansion
ExpandedDims(mp, cols) ==
    Len(cols) + Len(mp.categorical_config) * (mp.embedding_dim - 1)

\* lines 510-526: the entries the model constructor adds, only while no model exists
WithModelDims(mp, m, cols) ==
    IF m = "None"
        THEN [mp EXCEPT !.n_input_dims = ExpandedDims(mp, cols),
                        !.n_original_input_dims = Len(cols),
                        !.n_continuous_input_dims = Len(cols) - Len(mp.categorical_config)]
        ELSE mp

\* model_params after a first fit on data with columns cols and d distinct values
FittedParams(mp_over, cols, d) ==
    LET mp1 == WithTargetMapping(Update(DefaultModelParams, mp_over), "None", d)
        mp2 == WithCategoricalConfig(mp1, cols, d)
    IN WithModelDims(mp2, "None", cols)

\* model_params stored in a well-formed checkpoint file
CheckpointParams ==
    {FittedParams([discrete_outputs |-> b], ArrayColumns(NCols), 2) : b \in BOOLEAN}

\* (save frequency, decay step rate) pairs a fit call may configure
CadencePairs ==
    {<<k, n>> \in (1..MaxSaveFreq) \X (2..MaxDecayRate) : n = k + 1}

\* (early_stopping, patience) pairs a fit call may configure
StoppingPairs ==
    {<<e, p>> \in BOOLEAN \X (1..MaxPatience) : e \/ p = 1}

\* epoch budgets: the budget of a phase that is switched off is left at 0
BudgetTuples ==
    {<<rs, rp, ms, mp>> \in BOOLEAN \X BOOLEAN \X (0..MaxEpochs) \X (0..MaxEpochs) :
        (rs \/ ms = 0) /\ (rp \/ mp = 0)}

FullTrainParams ==
    { [ batch_size                    |-> 1,
        p_mask                        |-> 0,
        run_self_supervised_training  |-> b[1],
        run_supervised_training       |-> b[2],
        early_stopping                |-> s[1],
        early_stopping_min_delta_pct  |-> 0,
        early_stopping_patience       |-> s[2],
        max_epochs_supervised         |-> b[4],
        max_epochs_self_supervised    |-> b[3],
        epoch_save_frequency          |-> c[1],
        learning_rate_decay_step_rate |-> c[2] ] :
      b \in BudgetTuples, s \in StoppingPairs, c \in CadencePairs }

\* later fit calls pass the default {} or override one switch
LaterTrainParams == {EmptyDict} \cup {[early_stopping |-> b] : b \in BOOLEAN}

\* the train_params argument of fit: a full set of overrides while the class dict
\* still holds the literal defaults, afterwards the default {} or one switch
TrainParamOverrides(dtp) ==
    IF dtp = DefaultTrainParams THEN FullTrainParams ELSE LaterTrainParams

\* the loop bounds of the model cover the configuration
InBounds(tp) ==
    /\ tp.max_epochs_supervised <= MaxEpochs
    /\ tp.max_epochs_self_supervised <= MaxEpochs
    /\ tp.early_stopping_patience <= MaxPatience
    /\ tp.epoch_save_frequency <= MaxSaveFreq
    /\ tp.learning_rate_decay_step_rate <= MaxDecayRate
    /\ tp.batch_size <= MaxBatchSize

\* a fit call's data: the container types of (X_train, X_val, y_train, y_val), the
\* columns of X_train and of X_val, and the number of distinct values each
\* categorical column and the target hold
FitInputs ==
    { <<"ndarray",   "ndarray",   "ndarray", "ndarray",
            ArrayColumns(NCols), ArrayColumns(NCols), 2>>,
      <<"DataFrame", "DataFrame", "ndarray", "ndarray",  TableColumns, TableColumns, 2>>,
      <<"ndarray",   "NoneType",  "ndarray", "NoneType", ArrayColumns(NCols), << >>, 2>>,
      <<"DataFrame", "ndarray",   "ndarray", "ndarray",
            TableColumns, ArrayColumns(NCols), 2>>,
      <<"ndarray",   "ndarray",   "ndarray", "NoneType",
            ArrayColumns(NCols), ArrayColumns(NCols), 2>> }

(* ------------------------- early-stopping tracker ---------------------- *)
NoTracker == [best |-> None, num_bad_epochs |-> 0, min_delta |-> 0, patience |-> None]

\* EarlyStopping(min_delta, patience, percentage=True)
EarlyStopping(min_delta, patience) ==
    [best |-> None, num_bad_epochs |-> 0, min_delta |-> min_delta, patience |-> patience]

\* relative-percentage improvement test against the best-seen value
IsBetter(es, a) ==
    ~IsNan(a) /\ ~IsNan(es.best) /\ a * 100 < es.best * (100 - es.min_delta)

\* the tracker after step(a)
EsAfterStep(es, a) ==
    IF es.best = None THEN [es EXCEPT !.best = a]
    ELSE IF IsBetter(es, a) THEN [es EXCEPT !.best = a, !.num_bad_epochs = 0]
    ELSE [es EXCEPT !.num_bad_epochs = @ + 1]

\* the value step(a) returns
EsStep(es, a) ==
    es.best # None /\ EsAfterStep(es, a).num_bad_epochs >= es.patience

(* --------------------------- weight snapshots -------------------------- *)
NoStateDict == [set |-> FALSE, alias |-> FALSE, val |-> 0]

\* a snapshot that holds its own copy of the weight values
StateDictCopy(w) == [set |-> TRUE, alias |-> FALSE, val |-> w]

\* self.model.state_dict(): the tensors it returns share storage with the parameters
StateDict(w) == [set |-> TRUE, alias |-> TRUE, val |-> 0]

\* the live weights after self.model.load_state_dict(sd)
LoadStateDict(sd, w) == IF sd.alias THEN w ELSE sd.val

(* ------------------------------ checkpoints ---------------------------- *)
ModelStub(ss) == IF ss THEN "self_supervised_model" ELSE "predictive_model"

\* the label "epoch_<c>" is encoded as the epoch index c, "final" as -1
Final == -1

\* __save_model(save_identifier, self_supervised)
SaveModel(label, ss) ==
    Append(checkpoints, [stub |-> ModelStub(ss), label |-> label, weights |-> weights])

(* ------------------------ __generate_model_mask ------------------------ *)
\* the outcomes of torch.bernoulli(ones(rows, n) * (1 - p)): one 0/1 value per row
\* and original column; with p = 0 every value is 1, with p = 1 every value is 0
BernoulliDraws(p, rows, n) ==
    {d \in [1..rows -> [1..n -> {0, 1}]] :
        /\ p = 0 => \A r \in 1..rows, c \in 1..n : d[r][c] = 1
        /\ p = 100 => \A r \in 1..rows, c \in 1..n : d[r][c] = 0}

\* lines 125-130: idx_slices
IdxSlices(mp) == {mp.categorical_config[i].idx : i \in 1..Len(mp.categorical_config)}

\* line 133: range(n_original_input_dims)
ColumnRange(mp) == [i \in 1..mp.n_original_input_dims |-> i - 1]

IsCategorical(c, mp) == c \in IdxSlices(mp)

\* lines 131-135: mask_keep_idx, the columns of the loop that are not categorical
MaskKeepIdx(mp) == SelectSeq(ColumnRange(mp), LAMBDA c : ~IsCategorical(c, mp))

\* lines 133-142: the columns whose repeated value the loop appends to mask_arr,
\* in the order the loop meets them
MaskArrIdx(mp) == SelectSeq(ColumnRange(mp), LAMBDA c : IsCategorical(c, mp))

\* the categorical columns in the order of categorical_config
RegisteredIdx(mp) == [i \in 1..Len(mp.categorical_config) |-> mp.categorical_config[i].idx]

\* one row of torch.cat([mask[:, mask_keep_idx]] + mask_arr, dim=-1), the
\* categorical blocks taken in the order blocks lists their columns
MaskRowOf(row, keep, blocks, embedding_dim) ==
    [j \in 1..(Len(keep) + Len(blocks) * embedding_dim) |->
        IF j <= Len(keep)
            THEN row[keep[j] + 1]
            ELSE row[blocks[((j - Len(keep) - 1) \div embedding_dim) + 1] + 1]]

\* __generate_model_mask(p, batch_size), given the outcome of its Bernoulli draw
GenerateModelMask(draw, mp) ==
    [r \in 1..Len(draw) |->
        MaskRowOf(draw[r], MaskKeepIdx(mp), MaskArrIdx(mp), mp.embedding_dim)]

\* the mask no Bernoulli draw was made for
NoMask == << >>

(* ------------------------------ __init__ ------------------------------- *)
NotLoaded == DefaultModelParams

\* a file that fails to deserialize taken for a checkpoint
LoadModelUnguarded(sf, file_params) ==
    IF sf \in {"valid", "corrupt"} THEN file_params ELSE NotLoaded

\* __load_model(save_file): the (model_params, model) pair, or nothing
LoadModel(sf, file_params) == IF sf = "valid" THEN file_params ELSE NotLoaded

\* c_model_save is truthy
Loaded(c_model_save) == c_model_save.n_original_input_dims # None

Init ==
    /\ pc = "new"
    /\ last_call = "None"
    /\ raised = "None"
    /\ save_file = "None"
    /\ default_train_params = DefaultTrainParams
    /\ default_model_params = DefaultModelParams
    /\ loaded_model_params = NotLoaded
    /\ model = "None"
    /\ model_mode = "train"
    /\ val_generator = FALSE
    /\ weights = 0
    /\ forward_passes = 0
    /\ self_supervised = FALSE
    /\ epochs = 0
    /\ c_epoch = 0
    /\ batch_idx = 0
    /\ step = 0
    /\ lr_decays = 0
    /\ es_tracker = NoTracker
    /\ model_max_state_dict = NoStateDict
    /\ model_max_criteria = NaN
    /\ early_stopped = FALSE
    /\ checkpoints = << >>
    /\ batches_done = [self_supervised_model |-> 0, predictive_model |-> 0]
    /\ validations = 0
    /\ es_calls = 0
    /\ observed = << >>
    /\ captured_at = 0
    /\ ones_mask = NoMask
    /\ self_supervised_mask = NoMask
    /\ mask_draw = NoMask
    /\ train_pass_mode = "None"
    /\ val_pass_mode = "None"

\* TabNet(logger, model_params, use_cuda, save_file)
TabNetInit(sf, mp_over, file_params) ==
    /\ pc = "new"
    /\ LET c_model_save == LoadModel(sf, file_params) IN
        IF Loaded(c_model_save)
            THEN /\ loaded_model_params' = c_model_save
                 /\ model' = "loaded"
                 /\ UNCHANGED default_model_params
            ELSE /\ default_model_params' = Update(default_model_params, mp_over)
                 /\ UNCHANGED << loaded_model_params, model >>
    /\ save_file' = sf
    /\ last_call' = "__init__"
    /\ raised' = "None"
    /\ pc' = "idle"
    /\ UNCHANGED << default_train_params, model_mode, forward_passes >>
    /\ UNCHANGED train_vars

(* -------------------------------- fit ---------------------------------- *)
\* line 425: the container types of the training and validation inputs differ
TypesDiffer(inp) == inp[1] # inp[2] \/ inp[3] # inp[4]

\* the check of line 533 left out
NoTrainingSchemeUnchecked(tp) == FALSE

\* line 533: neither phase is switched on
NoTrainingScheme(tp) ==
    tp.run_self_supervised_training = FALSE /\ tp.run_supervised_training = FALSE

\* the check of lines 439-444 left out
ColumnCountUnchecked(inp) == FALSE

\* lines 439-443: X_val is an array whose column count differs from X_train's
ColumnCountDiffers(inp) == inp[2] = "ndarray" /\ Len(inp[6]) # Len(inp[5])

\* lines 433-437: X_val is a labelled table whose columns differ from X_train's
\* (pandas compares the two indexes element by element and itself raises
\* ValueError when their lengths differ)
ColumnNamesDiffer(inp) == inp[2] = "DataFrame" /\ inp[6] # inp[5]

\* lines 454-455, 459: a categorical variable that is no column of X_train
MissingColumn(mp, cols) ==
    \E i \in 1..Len(mp.categorical_variables) :
        \A j \in 1..Len(cols) : cols[j] # mp.categorical_variables[i]

\* an assignment to an entry of self.model_params: of the loaded dict, or else of
\* the class dict
SetModelParams(mp) ==
    IF Loaded(loaded_model_params)
        THEN /\ loaded_model_params' = mp
             /\ UNCHANGED default_model_params
        ELSE /\ default_model_params' = mp
             /\ UNCHANGED loaded_model_params

\* the model constructed only once a training scheme is known to be defined
ModelAfterSchemeCheck(m, tp) ==
    IF m = "None" /\ ~NoTrainingScheme(tp) THEN "constructed" ELSE m

\* lines 515-526: the model is constructed if the instance holds none; the check of
\* line 533 comes after it
ModelAfterConstruction(m, tp) == IF m = "None" THEN "constructed" ELSE m

\* what fit raises before it dispatches the phases, "None" if nothing
FitRaises(inp, mp, tp) ==
    IF TypesDiffer(inp)
        THEN "ValueError: Training and validation datasets should have same type"
    ELSE IF ColumnNamesDiffer(inp)
        THEN IF Len(inp[6]) # Len(inp[5])
                THEN "ValueError: Lengths must match to compare"
                ELSE "ValueError: X_train and X_val have differing columns!"
    ELSE IF ColumnCountDiffers(inp)
        THEN "ValueError: Training and validation datasets have differing number of columns"
    ELSE IF MissingColumn(mp, inp[5])
        THEN "KeyError"
    ELSE IF NoTrainingScheme(tp)
        THEN "ValueError: No training scheme defined"
    ELSE "None"

\* fit up to the dispatch of the phases (lines 414-536)
Fit(inp, tp_over) ==
    /\ pc = "idle"
    /\ InBounds(Update(default_train_params, tp_over))
    /\ default_train_params' = Update(default_train_params, tp_over)
    /\ last_call' = "fit"
    /\ step' = 0
    /\ forward_passes' = 0
    /\ UNCHANGED << save_file, weights, checkpoints, batches_done >>
    /\ UNCHANGED loop_vars
    /\ LET mp1 == WithTargetMapping(model_params, model, inp[7])
           mp2 == WithCategoricalConfig(mp1, inp[5], inp[7])
           mp3 == WithModelDims(mp2, model, inp[5])
       IN
       /\ raised' = FitRaises(inp, mp1, default_train_params')
       /\ IF TypesDiffer(inp) \/ ColumnNamesDiffer(inp) \/ ColumnCountDiffers(inp)
                \/ MissingColumn(mp1, inp[5])
            THEN /\ SetModelParams(mp1)
                 /\ pc' = "idle"
                 /\ UNCHANGED << model, model_mode, val_generator >>
            ELSE /\ SetModelParams(mp3)
                 /\ val_generator' = (inp[2] # "NoneType")
                 /\ model' = ModelAfterConstruction(model, default_train_params')
                 /\ model_mode' = "train"
                 /\ pc' = IF NoTrainingScheme(default_train_params')
                            THEN "idle" ELSE "fit_self_supervised"

\* lines 184-191: es_tracker
MakeTracker(tp) ==
    IF tp.early_stopping
        THEN EarlyStopping(tp.early_stopping_min_delta_pct, tp.early_stopping_patience)
        ELSE NoTracker

\* the scheduler of the earlier __train call, with the decays it applied, kept
SchedulerKept(decays) == decays

\* lines 161-169: a new optimizer at the configured learning rate and a new
\* MultiplicativeLR scheduler on it, which has applied no decay
NewScheduler(decays) == 0

\* the running best of the earlier __train call kept
RunningBestKept(best) == best

\* line 195: the running best of a __train call starts as NaN
NewRunningBest(best) == NaN

\* the start of __train up to the epoch loop (lines 160-199)
EnterTrain(ss, ep, step_offset) ==
    /\ self_supervised' = ss
    /\ epochs' = ep
    /\ step' = step_offset
    /\ lr_decays' = NewScheduler(lr_decays)
    /\ es_tracker' = MakeTracker(train_params)
    /\ model_max_state_dict' = NoStateDict
    /\ model_max_criteria' = NewRunningBest(model_max_criteria)
    /\ early_stopped' = FALSE
    /\ c_epoch' = 0
    /\ batch_idx' = 0
    /\ validations' = 0
    /\ es_calls' = 0
    /\ observed' = << >>
    /\ captured_at' = 0
    /\ ones_mask' = NoMask
    /\ self_supervised_mask' = NoMask
    /\ mask_draw' = NoMask
    /\ train_pass_mode' = "None"
    /\ val_pass_mode' = "None"
    /\ pc' = IF ep > 0 THEN "train_batch" ELSE "save_final"

\* the supervised phase numbering its steps from 0 again
StepOffsetRestarted(st) == 0

\* line 553: step_offset=step, the counter the earlier phase returned
StepOffset(st) == st

\* lines 537-545
DispatchSelfSupervised ==
    /\ pc = "fit_self_supervised"
    /\ IF train_params.run_self_supervised_training
        THEN EnterTrain(TRUE, train_params.max_epochs_self_supervised, StepOffset(step))
        ELSE /\ pc' = "fit_supervised"
             /\ UNCHANGED step
             /\ UNCHANGED loop_vars
    /\ UNCHANGED << last_call, raised, model, model_mode, forward_passes, val_generator,
                    weights, checkpoints, batches_done >>
    /\ UNCHANGED config_vars

\* lines 546-554, and the return of fit
DispatchSupervised ==
    /\ pc = "fit_supervised"
    /\ IF train_params.run_supervised_training
        THEN EnterTrain(FALSE, train_params.max_epochs_supervised, StepOffset(step))
        ELSE /\ pc' = "fit_return"
             /\ UNCHANGED step
             /\ UNCHANGED loop_vars
    /\ UNCHANGED << last_call, raised, model, model_mode, forward_passes, val_generator,
                    weights, checkpoints, batches_done >>
    /\ UNCHANGED config_vars

(* ------------------------------- __train ------------------------------- *)
\* the cadence test made on the counter as it was before line 204 advanced it
DecayDueBeforeStep(st, rate) == (st - 1) % rate = 0

\* line 261: the scheduler decays the learning rate after this optimizer step
DecayDue(st, rate) == st % rate = 0

\* lines 201-267: one training batch (forward pass, backward pass, optimizer step)
TrainBatch ==
    /\ pc = "train_batch"
    /\ step' = step + 1
    /\ weights' = weights + 1
    /\ lr_decays' = IF DecayDue(step', train_params.learning_rate_decay_step_rate)
                       THEN lr_decays + 1 ELSE lr_decays
    /\ batch_idx' = batch_idx + 1
    /\ batches_done' =
          [batches_done EXCEPT ![ModelStub(self_supervised)] = @ + 1]
    /\ pc' = IF batch_idx' = NBatches THEN "epoch_save" ELSE "train_batch"
    /\ train_pass_mode' = model_mode
    /\ LET rows == train_params.batch_size
           n == model_params.n_original_input_dims
       IN /\ \E draw \in BernoulliDraws(0, rows, n) :
                ones_mask' = GenerateModelMask(draw, model_params)
          /\ IF self_supervised
               THEN \E draw \in BernoulliDraws(train_params.p_mask, rows, n) :
                       /\ self_supervised_mask' = GenerateModelMask(draw, model_params)
                       /\ mask_draw' = draw
               ELSE UNCHANGED << self_supervised_mask, mask_draw >>
    /\ UNCHANGED << last_call, raised, model, model_mode, forward_passes, val_generator,
                    self_supervised, epochs, c_epoch, es_tracker, model_max_state_dict,
                    model_max_criteria, early_stopped, checkpoints, validations, es_calls,
                    observed, captured_at, val_pass_mode >>
    /\ UNCHANGED config_vars

\* the cadence test without its c_epoch > 0 conjunct
SaveDueFromZero(c, freq) == c % freq = 0

\* lines 269-271: the epoch is one the save cadence selects
SaveDue(c, freq) == (c > 0) /\ (c % freq = 0)

\* lines 269-272: the epoch checkpoint
EpochSave ==
    /\ pc = "epoch_save"
    /\ checkpoints' = IF SaveDue(c_epoch, train_params.epoch_save_frequency)
                         THEN SaveModel(c_epoch, self_supervised)
                         ELSE checkpoints
    /\ pc' = "validate"
    /\ UNCHANGED << last_call, raised, model, model_mode, forward_passes, val_generator,
                    weights, step, batches_done >>
    /\ UNCHANGED loop_vars
    /\ UNCHANGED config_vars

\* the test without its torch.isnan(model_max_criteria) operand
NewBestWithoutNanTest(v, best) == TorchEq(v, TorchMin(v, best))

\* the criterion replacing the running best only when strictly lower
NewBestStrict(v, best) == (~IsNan(v) /\ ~IsNan(best) /\ v < best) \/ IsNan(best)

\* lines 291-293, 335-337: the criterion replaces the running best
NewBest(v, best) == TorchEq(v, TorchMin(v, best)) \/ IsNan(best)

\* the tracker consulted whatever the early_stopping switch says
TrackerAlwaysConsulted(tp) == TRUE

\* lines 297, 341: the left operand of the short-circuit `and`
TrackerConsulted(tp) == tp.early_stopping

\* the tracker's answer discarded
StopSignalIgnored(tp, es, v) == FALSE

\* lines 297, 341: the tracker is consulted and signals stop
StopSignal(tp, es, v) == TrackerConsulted(tp) /\ EsStep(es, v)

\* lines 364, 386: self.model.eval() at the start of both evaluators
EvaluatorMode(m) == "eval"

\* the evaluator returning without switching the model back
ModeNotRestored(m) == m

\* lines 382, 408: self.model.train() before both evaluators return
ModeAfterEvaluator(m) == "train"

\* the end of an epoch's body: the for loop goes on to the next epoch or ends
NextEpoch ==
    /\ c_epoch' = c_epoch + 1
    /\ batch_idx' = 0
    /\ pc' = IF c_epoch + 1 < epochs THEN "train_batch" ELSE "save_final"

\* lines 274-359: validation, best snapshot, early stopping (v: the criterion the
\* evaluator returned)
Validate ==
    /\ pc = "validate"
    /\ IF ~val_generator
        THEN /\ NextEpoch
             /\ UNCHANGED << raised, weights, es_tracker, model_max_state_dict,
                             model_max_criteria, early_stopped, validations, es_calls,
                             observed, captured_at, model_mode, val_pass_mode >>
        ELSE \E v \in CritVals :
             /\ val_pass_mode' = EvaluatorMode(model_mode)
             /\ model_mode' = ModeAfterEvaluator(val_pass_mode')
             /\ validations' = validations + 1
             /\ observed' = Append(observed, [criterion |-> v, weights |-> weights])
             /\ IF NewBest(v, model_max_criteria)
                 THEN /\ model_max_state_dict' = StateDict(weights)
                      /\ model_max_criteria' = v
                      /\ captured_at' = validations'
                 ELSE UNCHANGED << model_max_state_dict, model_max_criteria, captured_at >>
             /\ IF TrackerConsulted(train_params)
                 THEN /\ es_tracker' = EsAfterStep(es_tracker, v)
                      /\ es_calls' = es_calls + 1
                 ELSE UNCHANGED << es_tracker, es_calls >>
             /\ IF StopSignal(train_params, es_tracker, v)
                 THEN IF model_max_state_dict'.set
                         THEN /\ weights' = LoadStateDict(model_max_state_dict', weights)
                              /\ early_stopped' = TRUE
                              /\ pc' = "save_final"
                              /\ UNCHANGED << raised, c_epoch, batch_idx >>
                         ELSE /\ raised' = "TypeError"
                              /\ pc' = "fit_return"
                              /\ UNCHANGED << weights, early_stopped, c_epoch, batch_idx >>
                 ELSE /\ NextEpoch
                      /\ UNCHANGED << raised, weights, early_stopped >>
    /\ UNCHANGED << last_call, model, forward_passes, val_generator,
                    self_supervised, epochs, step, lr_decays, checkpoints, batches_done,
                    ones_mask, self_supervised_mask, mask_draw, train_pass_mode >>
    /\ UNCHANGED config_vars

\* an early stop in the self-supervised phase ending the whole fit call
AfterPhaseEndsFitWhenStopped(ss, stopped) ==
    IF ss /\ ~stopped THEN "fit_supervised" ELSE "fit_return"

\* lines 361, 537-546: __train returns to fit, which goes on to the supervised
\* dispatch after the self-supervised phase and returns after the supervised one,
\* whether or not the epoch loop was left by break
AfterPhase(ss, stopped) == IF ss THEN "fit_supervised" ELSE "fit_return"

\* the final checkpoint skipped when the loop was left by break
SaveFinalUnlessStopped ==
    /\ pc = "save_final"
    /\ checkpoints' = IF early_stopped THEN checkpoints ELSE SaveModel(Final, self_supervised)
    /\ pc' = AfterPhase(self_supervised, early_stopped)
    /\ UNCHANGED << last_call, raised, model, model_mode, forward_passes, val_generator,
                    weights, step, batches_done >>
    /\ UNCHANGED loop_vars
    /\ UNCHANGED config_vars

\* lines 360-361: the final checkpoint and the return of the step counter
SaveFinal ==
    /\ pc = "save_final"
    /\ checkpoints' = SaveModel(Final, self_supervised)
    /\ pc' = AfterPhase(self_supervised, early_stopped)
    /\ UNCHANGED << last_call, raised, model, model_mode, forward_passes, val_generator,
                    weights, step, batches_done >>
    /\ UNCHANGED loop_vars
    /\ UNCHANGED config_vars

\* fit returns (or the exception leaves it): its locals and the record of the call
\* are dropped, and the weights it leaves are the ones the next call starts with
EndOfCall ==
    /\ pc' = "idle"
    /\ weights' = 0
    /\ step' = 0
    /\ val_generator' = FALSE
    /\ checkpoints' = << >>
    /\ batches_done' = [self_supervised_model |-> 0, predictive_model |-> 0]
    /\ self_supervised' = FALSE
    /\ epochs' = 0
    /\ c_epoch' = 0
    /\ batch_idx' = 0
    /\ lr_decays' = 0
    /\ es_tracker' = NoTracker
    /\ model_max_state_dict' = NoStateDict
    /\ model_max_criteria' = NaN
    /\ early_stopped' = FALSE
    /\ validations' = 0
    /\ es_calls' = 0
    /\ observed' = << >>
    /\ captured_at' = 0
    /\ ones_mask' = NoMask
    /\ self_supervised_mask' = NoMask
    /\ mask_draw' = NoMask
    /\ train_pass_mode' = "None"
    /\ val_pass_mode' = "None"

FitReturn ==
    /\ pc = "fit_return"
    /\ EndOfCall
    /\ UNCHANGED << last_call, raised, model, model_mode, forward_passes >>
    /\ UNCHANGED config_vars

(* ----------------------- predict / predict_proba ----------------------- *)
\* the check of line 557 left out
NoModelUnchecked(m) == FALSE

\* line 557: not self.model
NoModel(m) == m = "None"

\* __predict(X): what it raises, and the forward passes it runs (one batch)
PredictRaises == IF NoModel(model) THEN "ValueError: Model not yet initialized" ELSE "None"

PredictForwardPasses == IF NoModel(model) THEN 0 ELSE 1

\* predict(X)
Predict ==
    /\ pc = "idle"
    /\ last_call' = "predict"
    /\ raised' = PredictRaises
    /\ forward_passes' = PredictForwardPasses
    /\ model_mode' = IF NoModel(model) THEN model_mode ELSE "train"
    /\ UNCHANGED << pc, model >>
    /\ UNCHANGED train_vars
    /\ UNCHANGED config_vars

\* line 586: the model is not configured for discrete outputs
NotDiscrete(mp) == ~mp.discrete_outputs

\* predict_proba(X)
PredictProba ==
    /\ pc = "idle"
    /\ last_call' = "predict_proba"
    /\ IF NotDiscrete(model_params)
        THEN /\ raised' = "ValueError: Predict_proba not available for regression models"
             /\ forward_passes' = 0
             /\ UNCHANGED model_mode
        ELSE /\ raised' = PredictRaises
             /\ forward_passes' = PredictForwardPasses
             /\ model_mode' = IF NoModel(model) THEN model_mode ELSE "train"
    /\ UNCHANGED << pc, model >>
    /\ UNCHANGED train_vars
    /\ UNCHANGED config_vars

(* ---------------------------- specification ---------------------------- *)
Next ==
    \/ \E sf \in SaveFiles, mp_over \in ModelParamOverrides, fp \in CheckpointParams :
          TabNetInit(sf, mp_over, fp)
    \/ \E inp \in FitInputs, tp_over \in TrainParamOverrides(default_train_params) :
          Fit(inp, tp_over)
    \/ DispatchSelfSupervised
    \/ DispatchSupervised
    \/ TrainBatch
    \/ EpochSave
    \/ Validate
    \/ SaveFinal
    \/ FitReturn
    \/ Predict
    \/ PredictProba

Spec == Init /\ [][Next]_vars

(* --------------- specification over tables with categoricals ------------ *)
\* model_params overrides that register categorical columns
DataModelParamOverrides ==
    { EmptyDict,
      [categorical_variables |-> << "b" >>],
      [categorical_variables |-> << "c", "a" >>],
      [categorical_variables |-> << "b" >>, discrete_outputs |-> TRUE] }

\* model_params stored in a well-formed checkpoint file of a model with a
\* categorical column
DataCheckpointParams ==
    {FittedParams([categorical_variables |-> << "b" >>], TableColumns, 2)}

\* column layouts of the labelled tables
TableLayouts ==
    { TableColumns, << "b", "a" >>, << "a", "b", "c" >>, << "a", "c", "b" >> }

\* fit calls on labelled tables and arrays whose validation data agrees with the
\* training data, or differs from it in type, column names or column count
DataFitInputs ==
    { <<"DataFrame", "DataFrame", "ndarray", "ndarray", l, l, d>> :
          l \in TableLayouts, d \in {2, 3} }
    \cup
    { <<"DataFrame", "DataFrame", "ndarray", "ndarray", TableColumns, << "b", "a" >>, 2>>,
      <<"DataFrame", "DataFrame", "ndarray", "ndarray", TableColumns, << "a", "b", "c" >>, 2>>,
      <<"DataFrame", "DataFrame", "ndarray", "Series", TableColumns, TableColumns, 2>>,
      <<"DataFrame", "ndarray", "ndarray", "ndarray", TableColumns, ArrayColumns(NCols), 2>>,
      <<"ndarray", "ndarray", "ndarray", "ndarray",
            ArrayColumns(NCols), ArrayColumns(NCols), 2>>,
      <<"ndarray", "ndarray", "ndarray", "ndarray",
            ArrayColumns(NCols), ArrayColumns(NCols + 1), 2>> }

\* the train_params argument of the fit calls: one epoch of each phase with a
\* random mask, or one supervised epoch on batches of MaxBatchSize rows
DataFullTrainParams ==
    { [ batch_size                    |-> IF ss THEN 1 ELSE MaxBatchSize,
        p_mask                        |-> IF ss THEN 20 ELSE 0,
        run_self_supervised_training  |-> ss,
        run_supervised_training       |-> TRUE,
        early_stopping                |-> FALSE,
        early_stopping_min_delta_pct  |-> 0,
        early_stopping_patience       |-> 1,
        max_epochs_supervised         |-> 1,
        max_epochs_self_supervised    |-> IF ss THEN 1 ELSE 0,
        epoch_save_frequency          |-> 1,
        learning_rate_decay_step_rate |-> 2 ] : ss \in BOOLEAN }

DataTrainParamOverrides(dtp) ==
    IF dtp = DefaultTrainParams THEN DataFullTrainParams ELSE {EmptyDict}

\* TabNet(logger, model_params) called for a second instance: without a save file
\* its __init__ merges the overrides into the class dict (lines 64-65)
OtherInit(mp_over) ==
    /\ pc = "idle"
    /\ default_model_params' = Update(default_model_params, mp_over)
    /\ UNCHANGED << pc, last_call, raised, save_file, default_train_params,
                    loaded_model_params, model, model_mode, forward_passes >>
    /\ UNCHANGED train_vars

NextData ==
    \/ \E sf \in SaveFiles, mp_over \in DataModelParamOverrides,
            fp \in DataCheckpointParams :
          TabNetInit(sf, mp_over, fp)
    \/ \E mp_over \in DataModelParamOverrides : OtherInit(mp_over)
    \/ \E inp \in DataFitInputs, tp_over \in DataTrainParamOverrides(default_train_params) :
          Fit(inp, tp_over)
    \/ DispatchSelfSupervised
    \/ DispatchSupervised
    \/ TrainBatch
    \/ EpochSave
    \/ Validate
    \/ SaveFinal
    \/ FitReturn
    \/ Predict
    \/ PredictProba

SpecData == Init /\ [][NextData]_vars

TypeOK ==
    /\ pc \in {"new", "idle", "fit_self_supervised", "fit_supervised", "train_batch",
               "epoch_save", "validate", "save_final", "fit_return"}
    /\ model \in {"None", "loaded", "constructed"}
    /\ model_mode \in {"train", "eval"}
    /\ c_epoch \in 0..MaxEpochs
    /\ batch_idx \in 0..NBatches
    /\ step \in 0..(2 * MaxEpochs * NBatches)
    /\ model_max_criteria \in CritVals
    /\ captured_at \in 0..MaxEpochs
    /\ Len(ones_mask) \in {0, train_params.batch_size}
    /\ Len(self_supervised_mask) \in {0, train_params.batch_size}

(* ============================= properties ============================== *)
\* positions inside __train
TrainPcs == {"train_batch", "epoch_save", "validate", "save_final"}

SameTypeError == "ValueError: Training and validation datasets should have same type"

SchemeError == "ValueError: No training scheme defined"

\* the checkpoints of the current fit call with this stub and label
Saved(stub, label) ==
    {i \in 1..Len(checkpoints) : checkpoints[i].stub = stub /\ checkpoints[i].label = label}

\* a fit call that leaves X_val and y_val at None
FitWithoutValidation(tp_over) ==
    Fit(<<"ndarray", "NoneType", "ndarray", "NoneType", ArrayColumns(NCols), << >>, 2>>, tp_over)

\* C1: a fit call that leaves X_val and y_val at their default None and switches a
\* phase on raises no error and starts its phases without a validation stream.
C1_FitWithoutValidationAccepted ==
    [][\A tp_over \in TrainParamOverrides(default_train_params) :
          (FitWithoutValidation(tp_over)
             /\ (default_train_params'.run_self_supervised_training
                   \/ default_train_params'.run_supervised_training))
          => (raised' = "None" /\ pc' = "fit_self_supervised" /\ ~val_generator')]_vars

\* C2: with both phases switched off no phase ever runs: fit has raised a
\* configuration error, no batch was trained, no optimizer step changed the
\* weights and no checkpoint was written.
C2_NoSchemeFailsBeforeAnyPhase ==
    (/\ default_train_params.run_self_supervised_training = FALSE
     /\ default_train_params.run_supervised_training = FALSE)
    => /\ pc = "idle"
       /\ last_call = "fit" => raised \in {SameTypeError, SchemeError}
       /\ batches_done.self_supervised_model = 0
       /\ batches_done.predictive_model = 0
       /\ step = 0
       /\ weights = 0
       /\ checkpoints = << >>

C2_Witness ==
    /\ default_train_params.run_self_supervised_training = FALSE
    /\ default_train_params.run_supervised_training = FALSE
    /\ last_call = "fit"
    /\ raised = SchemeError
    /\ model = "constructed"

\* C3: with both phases switched on, whenever the supervised phase is running the
\* self-supervised phase has written its final checkpoint as the last of its
\* checkpoints, no self-supervised batch is trained after a supervised one, and the
\* supervised step numbers continue from the step the self-supervised phase returned.
C3_SelfSupervisedThenSupervised ==
    (/\ default_train_params.run_self_supervised_training
     /\ default_train_params.run_supervised_training)
    => /\ (pc \in TrainPcs /\ ~self_supervised) =>
            /\ Cardinality(Saved("self_supervised_model", Final)) = 1
            /\ \A i \in 1..Len(checkpoints) :
                 checkpoints[i].stub = "self_supervised_model" =>
                    \E j \in i..Len(checkpoints) :
                       /\ checkpoints[j].stub = "self_supervised_model"
                       /\ checkpoints[j].label = Final
            /\ step = batches_done.self_supervised_model + batches_done.predictive_model
       /\ (pc \in TrainPcs /\ self_supervised) =>
            /\ batches_done.predictive_model = 0
            /\ Saved("predictive_model", Final) = {}
       /\ pc = "fit_supervised" => step = batches_done.self_supervised_model

C3_Witness ==
    /\ default_train_params.run_self_supervised_training
    /\ default_train_params.run_supervised_training
    /\ pc = "validate"
    /\ ~self_supervised
    /\ batches_done.self_supervised_model > 0
    /\ batches_done.predictive_model > 0
    /\ step > batches_done.predictive_model
    /\ Cardinality(Saved("self_supervised_model", Final)) = 1

\* the validations of the current phase that returned a finite criterion
FiniteObserved == {i \in 1..Len(observed) : ~IsNan(observed[i].criterion)}

\* the validations at which the least finite criterion of the phase was observed
MinObserved ==
    {i \in FiniteObserved :
        \A j \in FiniteObserved : observed[i].criterion <= observed[j].criterion}

\* C4: when early stopping has fired in a phase, the loop was left inside the epoch
\* budget and the live weights after the restore are the weights the model had at
\* the end of an epoch at which the least validation criterion was observed.
C4_EarlyStopRestoresBestWeights ==
    (early_stopped /\ FiniteObserved = 1..Len(observed))
    => /\ c_epoch < epochs
       /\ \E i \in MinObserved : weights = observed[i].weights

\* every criterion is finite and lower than the one before
Improving(seq) ==
    \A i \in 1..Len(seq) :
        /\ ~IsNan(seq[i].criterion)
        /\ i > 1 => seq[i].criterion < seq[i - 1].criterion

\* every criterion is finite and equal to the first
Flat(seq) ==
    \A i \in 1..Len(seq) :
        ~IsNan(seq[i].criterion) /\ seq[i].criterion = seq[1].criterion

\* C5: with early stopping on, the tracker is consulted once per validated epoch;
\* over an improving sequence of criteria it never signals stop, and over a flat
\* sequence it signals stop at exactly the (patience + 1)-th call, where the phase
\* leaves its epoch loop.
C5_StopAtPatiencePlusOne ==
    (default_train_params.early_stopping /\ pc \in TrainPcs)
    => /\ es_calls = Len(observed)
       /\ validations = Len(observed)
       /\ Improving(observed) => ~early_stopped
       /\ Flat(observed) =>
            /\ early_stopped <=>
                 Len(observed) = default_train_params.early_stopping_patience + 1
            /\ Len(observed) <= default_train_params.early_stopping_patience + 1
       /\ early_stopped => pc = "save_final"

C5_Witness ==
    /\ default_train_params.early_stopping
    /\ default_train_params.early_stopping_patience = 2
    /\ Flat(observed)
    /\ Len(observed) = 3
    /\ early_stopped
    /\ pc = "save_final"

\* the phases fit has run to their end when it returns
PhaseRan(stub) ==
    IF stub = "self_supervised_model"
        THEN default_train_params.run_self_supervised_training
        ELSE default_train_params.run_supervised_training

\* the last checkpoint written with this stub is labelled final
FinalIsLast(stub) ==
    \A i \in 1..Len(checkpoints) :
        checkpoints[i].stub = stub =>
            \E j \in i..Len(checkpoints) :
                /\ checkpoints[j].stub = stub
                /\ checkpoints[j].label = Final
                /\ \A k \in (j + 1)..Len(checkpoints) : checkpoints[k].stub # stub

\* C6: a phase writes no final checkpoint while it runs and exactly one, as its last
\* action, when it ends, whether by exhausting its budget (zero epochs included) or
\* by early stopping; after an early stop the final checkpoint holds the weights
\* the restore left.
C6_OneFinalCheckpointPerPhase ==
    /\ pc \in TrainPcs => Saved(ModelStub(self_supervised), Final) = {}
    /\ (pc = "fit_supervised" /\ PhaseRan("self_supervised_model")) =>
          /\ Cardinality(Saved("self_supervised_model", Final)) = 1
          /\ checkpoints[Len(checkpoints)].label = Final
          /\ checkpoints[Len(checkpoints)].weights = weights
    /\ pc = "fit_return" =>
          \A stub \in {"self_supervised_model", "predictive_model"} :
             /\ Cardinality(Saved(stub, Final)) = IF PhaseRan(stub) THEN 1 ELSE 0
             /\ FinalIsLast(stub)
             /\ PhaseRan(stub) =>
                   /\ checkpoints[Len(checkpoints)].label = Final
                   /\ checkpoints[Len(checkpoints)].weights = weights

C6_Witness ==
    /\ pc = "fit_return"
    /\ early_stopped
    /\ default_train_params.run_self_supervised_training
    /\ default_train_params.max_epochs_self_supervised = 0
    /\ Cardinality(Saved("self_supervised_model", Final)) = 1
    /\ Cardinality(Saved("predictive_model", Final)) = 1
    /\ Len(checkpoints) > 2

\* epoch c of the current phase has been trained and has passed the cadence test
PastEpochSave(c) ==
    \/ c < c_epoch
    \/ c = c_epoch /\ pc = "validate"
    \/ c = c_epoch /\ pc = "save_final" /\ early_stopped

\* C7: while a phase runs, it has written one epoch checkpoint for each epoch c with
\* c > 0 and c mod K = 0 that has been trained, none for any other epoch, and the
\* checkpoint of an epoch is on disk when that epoch's validation starts.
C7_EpochCheckpointCadence ==
    pc \in TrainPcs =>
        /\ \A c \in 0..MaxEpochs :
              Cardinality(Saved(ModelStub(self_supervised), c)) =
                 IF /\ c > 0
                    /\ c % default_train_params.epoch_save_frequency = 0
                    /\ PastEpochSave(c)
                 THEN 1 ELSE 0
        /\ \A i \in 1..Len(checkpoints) :
              checkpoints[i].label \in {Final} \cup (1..(MaxEpochs - 1))
        /\ pc = "validate" => validations = c_epoch

C7_Witness ==
    /\ pc = "validate"
    /\ c_epoch = 2
    /\ default_train_params.epoch_save_frequency = 2
    /\ Cardinality(Saved(ModelStub(self_supervised), 2)) = 1
    /\ Saved(ModelStub(self_supervised), 1) = {}

\* the epoch budget configured for the phase
Budget(ss) ==
    IF ss THEN default_train_params.max_epochs_self_supervised
          ELSE default_train_params.max_epochs_supervised

\* C8: with early_stopping off the tracker is never consulted, the epoch loop is
\* never left by break, and a phase that has ended has trained and validated
\* exactly its configured number of epochs, whatever the criteria were.
C8_NoEarlyStoppingRunsFullBudget ==
    ~default_train_params.early_stopping =>
        /\ es_calls = 0
        /\ ~early_stopped
        /\ (pc = "save_final") =>
              /\ epochs = Budget(self_supervised)
              /\ c_epoch = epochs
              /\ validations = epochs
              /\ batches_done[ModelStub(self_supervised)] = epochs * NBatches
        /\ (pc = "fit_return") =>
              /\ batches_done.self_supervised_model =
                    IF default_train_params.run_self_supervised_training
                       THEN Budget(TRUE) * NBatches ELSE 0
              /\ batches_done.predictive_model =
                    IF default_train_params.run_supervised_training
                       THEN Budget(FALSE) * NBatches ELSE 0

C8_Witness ==
    /\ ~default_train_params.early_stopping
    /\ pc = "save_final"
    /\ epochs = MaxEpochs
    /\ Len(observed) = MaxEpochs
    /\ Flat(observed)

\* C9: an instance constructed with a save_file that is missing or does not
\* deserialize has raised nothing and holds no model; it never holds a loaded
\* model, and a fit that gets past its input checks has constructed a fresh model
\* from the instance's model parameters, with the dimensions of the training data.
C9_FailedLoadFallsBackToFreshModel ==
    save_file \in {"missing", "corrupt"} =>
        /\ model # "loaded"
        /\ loaded_model_params = NotLoaded
        /\ last_call = "__init__" => (raised = "None" /\ model = "None")
        /\ (last_call = "fit" /\ raised # SameTypeError) =>
              /\ model = "constructed"
              /\ default_model_params.n_original_input_dims = NCols
        /\ model = "None" => default_model_params.n_original_input_dims = None

C9_Witness ==
    /\ save_file = "corrupt"
    /\ last_call = "fit"
    /\ raised = "None"
    /\ model = "constructed"
    /\ pc = "fit_return"
    /\ Len(checkpoints) > 0

ConfigurationErrors ==
    { "ValueError: Model not yet initialized",
      "ValueError: Predict_proba not available for regression models" }

\* C10: predict and predict_proba called on an instance without a model raise a
\* configuration error and run no forward pass, and so does predict_proba on an
\* instance whose model parameters are not set to discrete outputs.
C10_PredictNeedsModel ==
    /\ (last_call \in {"predict", "predict_proba"} /\ model = "None") =>
          (raised \in ConfigurationErrors /\ forward_passes = 0)
    /\ (last_call = "predict_proba"
          /\ ~(IF loaded_model_params = NotLoaded
                  THEN default_model_params.discrete_outputs
                  ELSE loaded_model_params.discrete_outputs)) =>
          (raised = "ValueError: Predict_proba not available for regression models"
             /\ forward_passes = 0)
    /\ (last_call = "predict" /\ model # "None") => (raised = "None" /\ forward_passes > 0)

C10_Witness ==
    /\ last_call = "predict_proba"
    /\ model = "None"
    /\ default_model_params.discrete_outputs
    /\ raised = "ValueError: Model not yet initialized"
    /\ forward_passes = 0

\* the fit inputs of SpecData whose training and validation data differ in container
\* type, in column names (labelled tables) or in column count (arrays)
MismatchedInputs ==
    {inp \in DataFitInputs :
        \/ inp[1] # inp[2]
        \/ inp[3] # inp[4]
        \/ inp[1] = "DataFrame" /\ inp[2] = "DataFrame" /\ inp[5] # inp[6]
        \/ inp[1] = "ndarray" /\ inp[2] = "ndarray" /\ Len(inp[5]) # Len(inp[6])}

InputErrors ==
    { "ValueError: Training and validation datasets should have same type",
      "ValueError: X_train and X_val have differing columns!",
      "ValueError: Lengths must match to compare",
      "ValueError: Training and validation datasets have differing number of columns" }

\* C11: a fit call whose training and validation inputs differ in container type,
\* in column names (labelled tables) or in column count (arrays) raises a
\* ValueError and returns without dispatching a phase: no batch is trained, no
\* weight changes and no checkpoint is written.
C11_MismatchFailsBeforeAnyPhase ==
    [][\A inp \in MismatchedInputs, tp_over \in DataTrainParamOverrides(default_train_params) :
          Fit(inp, tp_over) =>
             /\ raised' \in InputErrors
             /\ pc' = "idle"
             /\ batches_done' = batches_done
             /\ weights' = weights
             /\ checkpoints' = checkpoints]_vars

C11_Witness ==
    /\ pc = "idle"
    /\ last_call = "fit"
    /\ raised = "ValueError: Training and validation datasets have differing number of columns"
    /\ batches_done = [self_supervised_model |-> 0, predictive_model |-> 0]
    /\ checkpoints = << >>

\* C12: the mask __train generates with p = 0 for a batch has one row per row of the
\* batch, every entry 1, and a width equal to n_continuous_input_dims plus the number
\* of categorical columns times embedding_dim, which is the n_input_dims the model
\* was built with.
C12_OnesMaskHasModelWidth ==
    ones_mask # NoMask =>
        /\ Len(ones_mask) = train_params.batch_size
        /\ \A r \in 1..Len(ones_mask) :
              /\ Len(ones_mask[r]) = model_params.n_input_dims
              /\ Len(ones_mask[r]) =
                    model_params.n_continuous_input_dims
                    + Len(model_params.categorical_config) * model_params.embedding_dim
              /\ \A j \in 1..Len(ones_mask[r]) : ones_mask[r][j] = 1

\* the "final" checkpoints the current fit call wrote for the phase
FinalCheckpoints(ss) ==
    {i \in 1..Len(checkpoints) :
        checkpoints[i].stub = ModelStub(ss) /\ checkpoints[i].label = Final}

\* C13: when a phase with validation has used up its epoch budget without an early
\* stop, the live weights at the end of the phase, and the weights in its "final"
\* checkpoint, are those the model had at the end of an epoch at which the least
\* validation criterion was observed.
C13_BudgetEndRestoresBestWeights ==
    (~early_stopped /\ raised = "None" /\ Len(observed) > 0
       /\ FiniteObserved = 1..Len(observed))
    => /\ pc = "save_final" => \E i \in MinObserved : weights = observed[i].weights
       /\ pc \in {"fit_supervised", "fit_return"} =>
             \A k \in FinalCheckpoints(self_supervised) :
                \E i \in MinObserved : checkpoints[k].weights = observed[i].weights

\* the running best after the first n validations of the phase, by the rule of the
\* claim: replaced when the new criterion is <= the running best or the running
\* best is NaN
RECURSIVE RunningBest(_)
RunningBest(n) ==
    IF n = 0 THEN NaN
    ELSE LET best == RunningBest(n - 1)
             v == observed[n].criterion
         IN IF best = NaN \/ (v # NaN /\ v <= best) THEN v ELSE best

\* the last of the first n validations at which that rule replaces the running best
RECURSIVE LastReplaced(_)
LastReplaced(n) ==
    IF n = 0 THEN 0
    ELSE LET best == RunningBest(n - 1)
             v == observed[n].criterion
         IN IF best = NaN \/ (v # NaN /\ v <= best) THEN n ELSE LastReplaced(n - 1)

\* C14: after every validation of a phase the running best is the least finite
\* criterion observed so far in the phase (NaN while none was finite), and the
\* snapshot and the running best were assigned at exactly the validations whose
\* criterion was <= the running best or found the running best NaN.
C14_RunningBestIsMinimum ==
    /\ model_max_criteria = RunningBest(Len(observed))
    /\ captured_at = LastReplaced(Len(observed))
    /\ model_max_state_dict.set <=> Len(observed) > 0
    /\ IF FiniteObserved = {}
          THEN IsNan(model_max_criteria)
          ELSE \A i \in MinObserved : model_max_criteria = observed[i].criterion

C14_Witness ==
    /\ Len(observed) = 3
    /\ observed[1].criterion = 2
    /\ observed[2].criterion = 2
    /\ observed[3].criterion = 3
    /\ captured_at = 2
    /\ model_max_criteria = 2

\* the number of multiples of rate among the global step numbers lo+1 .. hi
Multiples(lo, hi, rate) == Cardinality({s \in (lo + 1)..hi : s % rate = 0})

\* the global step number the current phase started from
PhaseOffset == IF self_supervised THEN 0 ELSE batches_done.self_supervised_model

BothPhases ==
    train_params.run_self_supervised_training /\ train_params.run_supervised_training

\* C15 as stated: during a fit that runs both phases, the number of decay factors in
\* effect equals the number of multiples of the decay step rate among all global
\* step numbers completed so far in the fit, the self-supervised ones included.
C15_DecaysAccumulateAcrossPhases ==
    (BothPhases /\ pc \in TrainPcs) =>
        lr_decays = Multiples(0, step, train_params.learning_rate_decay_step_rate)

\* C15 amended: the number of decay factors in effect equals the number of multiples
\* of the decay step rate among the global step numbers completed in the current
\* phase; the supervised phase starts again from the configured learning rate.
C15_DecaysCountedPerPhase ==
    pc \in TrainPcs =>
        /\ lr_decays = Multiples(PhaseOffset, step, train_params.learning_rate_decay_step_rate)
        /\ lr_decays <= Multiples(0, step, train_params.learning_rate_decay_step_rate)

C15_Witness ==
    /\ BothPhases
    /\ pc \in TrainPcs
    /\ ~self_supervised
    /\ lr_decays > 0
    /\ lr_decays < Multiples(0, step, train_params.learning_rate_decay_step_rate)

\* training batches processed in the current fit call
BatchesTotal == batches_done.self_supervised_model + batches_done.predictive_model

\* C16: every training batch advances the global step counter by exactly one, across
\* both phases of a fit call; nothing else changes it during the phases, so the
\* value a phase returns is its step offset plus the batches it processed; and the
\* scheduler decays exactly after the optimizer steps whose global step number is a
\* multiple of the decay step rate.
C16_StepCountsBatchesAcrossPhases ==
    [][/\ pc = "train_batch" =>
             /\ step' = step + 1
             /\ BatchesTotal' = BatchesTotal + 1
             /\ lr_decays' =
                   IF step' % train_params.learning_rate_decay_step_rate = 0
                      THEN lr_decays + 1 ELSE lr_decays
       /\ pc \in {"epoch_save", "validate", "save_final"} =>
             /\ step' = step
             /\ BatchesTotal' = BatchesTotal
             /\ lr_decays' = lr_decays
       /\ pc \in {"fit_self_supervised", "fit_supervised"} =>
             /\ step' = step
             /\ BatchesTotal' = BatchesTotal
       /\ pc = "save_final" =>
             step = PhaseOffset + batches_done[ModelStub(self_supervised)]
       /\ pc \in TrainPcs \cup {"fit_self_supervised", "fit_supervised"} =>
             step = BatchesTotal]_vars

C16_Witness ==
    /\ pc = "train_batch"
    /\ ~self_supervised
    /\ batches_done.self_supervised_model > 0
    /\ batches_done.predictive_model > 0
    /\ step % train_params.learning_rate_decay_step_rate = 0
    /\ batches_done.predictive_model % train_params.learning_rate_decay_step_rate # 0
    /\ lr_decays > 0

\* C17: once early stopping has fired in the self-supervised phase no further batch
\* of that phase is trained: the loop goes to the final checkpoint and returns to
\* fit, and fit, if the supervised phase is switched on, starts it with its own
\* epoch budget.
C17_EarlyStopEndsOnlyItsPhase ==
    [][(self_supervised /\ early_stopped) =>
          /\ pc \in {"save_final", "fit_supervised", "fit_return"}
          /\ pc \in {"save_final", "fit_supervised"} =>
                batches_done'.self_supervised_model = batches_done.self_supervised_model
          /\ pc = "save_final" => pc' = "fit_supervised"
          /\ (pc = "fit_supervised" /\ train_params.run_supervised_training) =>
                /\ ~self_supervised'
                /\ ~early_stopped'
                /\ epochs' = train_params.max_epochs_supervised
                /\ pc' = IF epochs' > 0 THEN "train_batch" ELSE "save_final"]_vars

\* the supervised phase is training after the self-supervised phase was stopped
\* before the end of its epoch budget
C17_Witness ==
    /\ raised = "None"
    /\ ~self_supervised
    /\ pc = "train_batch"
    /\ batches_done.predictive_model > 0
    /\ batches_done.self_supervised_model > 0
    /\ batches_done.self_supervised_model
          < train_params.max_epochs_self_supervised * NBatches

\* C18: configuration is per instance and per call: constructing another instance
\* with model_params overrides leaves the parameters this instance sees unchanged,
\* and a fit call that passes no train_params overrides runs with the default
\* training parameters, whatever overrides earlier calls were given.
C18_ConfigurationNotShared ==
    [][/\ (\E mp_over \in DataModelParamOverrides : OtherInit(mp_over)) =>
             model_params' = model_params
       /\ \A inp \in DataFitInputs :
             Fit(inp, EmptyDict) => train_params' = DefaultTrainParams]_vars

\* C19: once a model exists (constructed by an earlier fit or loaded from a
\* checkpoint), a fit call leaves every entry of the model parameters as it was,
\* the categorical configuration and the target mapping included.
C19_ModelParamsFrozen ==
    [][\A inp \in DataFitInputs, tp_over \in DataTrainParamOverrides(default_train_params) :
          (model # "None" /\ Fit(inp, tp_over)) => model_params' = model_params]_vars

\* C20: the mask generated for a self-supervised batch holds, in every row, the
\* drawn values of the continuous columns first, in column order, and then one
\* block of embedding_dim copies of the drawn value per categorical column, the
\* blocks in the order the categorical columns were registered, whatever their
\* positions among the columns are.
C20_MaskBlocksInRegistrationOrder ==
    (self_supervised_mask # NoMask
       /\ IdxSlices(model_params) \subseteq 0..(model_params.n_original_input_dims - 1))
    => self_supervised_mask =
          [r \in 1..Len(mask_draw) |->
              MaskRowOf(mask_draw[r], MaskKeepIdx(model_params),
                        RegisteredIdx(model_params), model_params.embedding_dim)]

\* C21: every validation forward pass runs with the model in evaluation mode, the
\* evaluator leaves the model in training mode, and every training-batch forward
\* pass, in every epoch and phase, runs with the model in training mode.
C21_ModeFollowsLoop ==
    /\ val_pass_mode \in {"None", "eval"}
    /\ train_pass_mode \in {"None", "train"}
    /\ validations > 0 => val_pass_mode = "eval"
    /\ pc \in TrainPcs \cup {"fit_self_supervised", "fit_supervised", "fit_return"} =>
          model_mode = "train"

\* a training batch of the second epoch of the supervised phase, after validations
\* in both phases
C21_Witness ==
    /\ ~self_supervised
    /\ batches_done.self_supervised_model > 0
    /\ c_epoch = 1
    /\ batch_idx = 1
    /\ validations = 1
    /\ val_pass_mode = "eval"
    /\ train_pass_mode = "train"
    /\ model_mode = "train"

\* C22: the first validation of a phase captures a snapshot whatever its criterion
\* is, so whenever the loop has restored the snapshot on an early-stop signal a
\* snapshot captured in the current phase was present, and the restore never fails
\* on an absent snapshot.
C22_SnapshotPresentAtRestore ==
    /\ raised # "TypeError"
    /\ Len(observed) > 0 => (model_max_state_dict.set /\ captured_at >= 1)
    /\ early_stopped =>
          /\ model_max_state_dict.set
          /\ captured_at \in 1..Len(observed)

\* early stopping has fired in a phase whose first criterion was NaN
C22_Witness ==
    /\ early_stopped
    /\ Len(observed) = 2
    /\ IsNan(observed[1].criterion)
    /\ model_max_state_dict.set
    /\ raised = "None"

\* the tracker a phase would hold after the first n validations of that phase alone
RECURSIVE TrackerAfter(_)
TrackerAfter(n) ==
    IF n = 0
        THEN EarlyStopping(train_params.early_stopping_min_delta_pct,
                           train_params.early_stopping_patience)
        ELSE EsAfterStep(TrackerAfter(n - 1), observed[n].criterion)

\* C23: the running best, the snapshot and the early-stopping tracker of a phase
\* depend on the validations of that phase only: a phase starts with no snapshot, a
\* NaN running best and a fresh tracker, the snapshot it holds was captured at one
\* of its own validations, and its tracker (with its count of bad epochs) is the
\* one its own criteria alone produce.
C23_TrackingIsPerPhase ==
    pc \in TrainPcs =>
        /\ model_max_criteria = RunningBest(Len(observed))
        /\ model_max_state_dict.set <=> captured_at \in 1..Len(observed)
        /\ Len(observed) = 0 =>
              (IsNan(model_max_criteria) /\ ~model_max_state_dict.set /\ captured_at = 0)
        /\ IF train_params.early_stopping
              THEN es_tracker = TrackerAfter(Len(observed))
              ELSE es_tracker = NoTracker

\* early stopping has fired in the supervised phase after a self-supervised phase
\* with validations, on the supervised phase's own two criteria
C23_Witness ==
    /\ ~self_supervised
    /\ batches_done.self_supervised_model >= NBatches
    /\ train_params.early_stopping
    /\ early_stopped
    /\ Len(observed) = 2
    /\ observed[1].criterion = MaxCrit
    /\ captured_at = 1
    /\ es_tracker.num_bad_epochs = 1

\* C24: a fit call with both phases switched off on an instance without a model
\* raises the "no training scheme" error only after it has constructed the model:
\* the instance is left with a constructed model that no batch has trained, and a
\* predict call that follows runs its forward pass instead of raising "model not
\* yet initialized".
C24_SchemeCheckAfterConstruction ==
    [][/\ (pc = "idle" /\ model = "None" /\ last_call' = "fit" /\ raised' = SchemeError) =>
             /\ model' = "constructed"
             /\ model_params'.n_original_input_dims # None
             /\ pc' = "idle"
             /\ weights' = 0
             /\ BatchesTotal' = 0
       /\ (last_call = "fit" /\ raised = SchemeError /\ last_call' = "predict") =>
             /\ raised' = "None"
             /\ forward_passes' > 0]_vars

\* predict has run on the model a failed fit left on an instance constructed
\* without a checkpoint
C24_Witness ==
    /\ save_file = "None"
    /\ NoTrainingScheme(train_params)
    /\ model = "constructed"
    /\ last_call = "predict"
    /\ raised = "None"
    /\ forward_passes > 0

====
